---- MODULE Spec2Model ----
(***************************************************************************)
(* A model of packages/react/src/createReactQueryHooks.ts: the cache key   *)
(* derivation (getCacheKey), the one-shot subscription hook                *)
(* (useSubscription), the live-query cursor loop (useLiveQuery) and the    *)
(* server-side prefetch facade (ssr, useDehydratedState, useQuery).        *)
(*                                                                         *)
(* The hooks run on a single event loop.  One action of the model is one   *)
(* run-to-completion task of that loop: a render with the effects it       *)
(* commits, the settling of a promise, or one promise reaction.            *)
(***************************************************************************)
EXTENDS Integers, Sequences, FiniteSets, TLC

(* ------------------------------------------------------------------ *)
(* Bounds of the model                                                *)
(* ------------------------------------------------------------------ *)

\* number of activations (effect runs with enabled = true) of useSubscription
MaxActivations == 2

\* ==================================================================
\* Part 1.  useSubscription  (lines 107-148)
\* ==================================================================

VARIABLES
  subMounted,   \* the component calling useSubscription is mounted
  subEnabled,   \* opts?.enabled ?? true, as of the last render
  subKey,       \* hashQueryKey(pathAndArgs), as of the last render
  subOpts,      \* the opts object of the last render: which callbacks it has
  subLive,      \* index in acts of the activation whose cleanup is pending, 0 if none
  acts          \* one record per effect run that issued a request (its closure)

subVars == <<subMounted, subEnabled, subKey, subOpts, subLive, acts>>

\* the query keys the component may be rendered with
SubKeys == {"k1", "k2"}

\* opts: which of the two optional callbacks the caller passed
SubOptsSet == [onBatch : BOOLEAN, onError : BOOLEAN]

\* The closure created by one run of the effect body (lines 126-141):
\* `stopped`, the promise of client.subscriptionOnce and the opts it captured.
\*   pc       "pending"      the long-poll promise has not settled
\*            "thenQueued"   it fulfilled; the .then reaction has not run yet
\*            "catchQueued"  the .catch reaction is due (rejection or throw)
\*            "done"         no reaction is left to run
NewActivation(opts) ==
  [ stopped      |-> FALSE,
    cancelled    |-> FALSE,
    pc           |-> "pending",
    outcome      |-> "none",
    threw        |-> FALSE,
    requests     |-> 1,
    opts         |-> opts,
    onBatchCalls |-> 0,
    onErrorCalls |-> 0 ]

\* a missing `if (stopped) return;`
StoppedGuardMissing(stopped) == FALSE

\* `if (stopped) { return; }`  (lines 131-133 and 137-139)
StoppedGuard(stopped) == stopped

\* onError attached as an unconditional continuation of the .then reaction
AfterThenAlwaysCatch(threw) == "catchQueued"

\* promise.then(f).catch(g): g runs after f only if f threw (lines 129-136)
AfterThen(threw) == IF threw THEN "catchQueued" ELSE "done"

\* React re-runs an effect when one of its dependencies changed (line 147)
SubDepsChanged(oldKey, oldEnabled, newKey, newEnabled) ==
  oldKey # newKey \/ oldEnabled # newEnabled

\* The cleanup returned by the effect (lines 142-145), applied to the live
\* activation if there is one.
SubCleanup(as, live) ==
  IF live = 0 THEN as
  ELSE [as EXCEPT ![live].stopped = TRUE, ![live].cancelled = TRUE]

\* The effect body (lines 122-141) run after the cleanup: nothing when
\* disabled, otherwise a new closure and one subscriptionOnce request.
SubRunEffect(as, enabled, opts) ==
  IF ~enabled THEN as ELSE Append(as, NewActivation(opts))

\* First render of the component: the effect runs once.
SubMount(enabled, key, opts) ==
  /\ ~subMounted
  /\ enabled => Len(acts) < MaxActivations
  /\ subMounted' = TRUE
  /\ subEnabled' = enabled
  /\ subKey' = key
  /\ subOpts' = opts
  /\ acts' = SubRunEffect(acts, enabled, opts)
  /\ subLive' = IF enabled THEN Len(acts') ELSE 0

\* A later render.  If [queryKey, enabled] changed, the previous cleanup
\* runs and then the effect body; otherwise only the (uncaptured) opts change.
SubRerender(enabled, key, opts) ==
  /\ subMounted
  /\ <<enabled, key, opts>> # <<subEnabled, subKey, subOpts>>
  /\ subEnabled' = enabled
  /\ subKey' = key
  /\ subOpts' = opts
  /\ subMounted' = subMounted
  /\ IF SubDepsChanged(subKey, subEnabled, key, enabled)
     THEN /\ enabled => Len(acts) < MaxActivations
          /\ acts' = SubRunEffect(SubCleanup(acts, subLive), enabled, opts)
          /\ subLive' = IF enabled THEN Len(acts') ELSE 0
     ELSE UNCHANGED <<acts, subLive>>

\* Unmount: the pending cleanup runs.
SubUnmount ==
  /\ subMounted
  /\ subMounted' = FALSE
  /\ acts' = SubCleanup(acts, subLive)
  /\ subLive' = 0
  /\ UNCHANGED <<subEnabled, subKey, subOpts>>

\* The long-poll request of activation a resolves with a batch.  Nothing in
\* the hook prevents this after promise.cancel(): it may happen arbitrarily late.
SubResolve(a) ==
  /\ a \in 1..Len(acts)
  /\ acts[a].pc = "pending"
  /\ acts' = [acts EXCEPT ![a].pc = "thenQueued", ![a].outcome = "resolved"]
  /\ UNCHANGED <<subMounted, subEnabled, subKey, subOpts, subLive>>

\* The long-poll request of activation a rejects: the .then reaction is skipped.
SubReject(a) ==
  /\ a \in 1..Len(acts)
  /\ acts[a].pc = "pending"
  /\ acts' = [acts EXCEPT ![a].pc = "catchQueued", ![a].outcome = "rejected"]
  /\ UNCHANGED <<subMounted, subEnabled, subKey, subOpts, subLive>>

\* The .then reaction (lines 130-135).  `throws` is whether onBatch throws.
SubRunThen(a, throws) ==
  /\ a \in 1..Len(acts)
  /\ acts[a].pc = "thenQueued"
  /\ IF StoppedGuard(acts[a].stopped)
     THEN acts' = [acts EXCEPT ![a].pc = "done"]
     ELSE IF acts[a].opts.onBatch
          THEN acts' = [acts EXCEPT ![a].onBatchCalls = @ + 1,
                                    ![a].threw = throws,
                                    ![a].pc = AfterThen(throws)]
          ELSE acts' = [acts EXCEPT ![a].pc = AfterThen(FALSE)]
  /\ UNCHANGED <<subMounted, subEnabled, subKey, subOpts, subLive>>

\* The .catch reaction (lines 136-141).
SubRunCatch(a) ==
  /\ a \in 1..Len(acts)
  /\ acts[a].pc = "catchQueued"
  /\ IF StoppedGuard(acts[a].stopped)
     THEN acts' = [acts EXCEPT ![a].pc = "done"]
     ELSE IF acts[a].opts.onError
          THEN acts' = [acts EXCEPT ![a].onErrorCalls = @ + 1, ![a].pc = "done"]
          ELSE acts' = [acts EXCEPT ![a].pc = "done"]
  /\ UNCHANGED <<subMounted, subEnabled, subKey, subOpts, subLive>>

\* ---- C1 -----------------------------------------------------------
\* C1: once an activation has been torn down (its cleanup ran, stopped is
\* true), no later step invokes onBatch or onError on its behalf, however
\* late its request resolves or rejects.
C1_NoCallbackAfterTeardown ==
  [][\A a \in 1..Len(acts) :
        acts[a].stopped =>
          /\ acts'[a].onBatchCalls = acts[a].onBatchCalls
          /\ acts'[a].onErrorCalls = acts[a].onErrorCalls]_subVars

\* an activation torn down while pending whose request later resolved and
\* whose .then reaction ran without delivering, although onBatch was passed
C1_Witness ==
  \E a \in 1..Len(acts) :
    /\ acts[a].stopped
    /\ acts[a].outcome = "resolved"
    /\ acts[a].pc = "done"
    /\ acts[a].opts.onBatch
    /\ acts[a].onBatchCalls = 0

\* ---- C10 ----------------------------------------------------------
\* C10: every activation issues exactly one long-poll request, calls onBatch
\* at most once and onError at most once; onError is called only if the
\* request rejected or onBatch threw, never after a successful request whose
\* onBatch returned normally; and a throw of onBatch is delivered to onError
\* if the activation is still active when the .catch reaction runs.
C10_OneShotCallbacks ==
  \A a \in 1..Len(acts) :
    /\ acts[a].requests = 1
    /\ acts[a].onBatchCalls <= 1
    /\ acts[a].onErrorCalls <= 1
    /\ acts[a].onErrorCalls = 1 => (acts[a].outcome = "rejected" \/ acts[a].threw)
    /\ (acts[a].outcome = "resolved" /\ ~acts[a].threw) => acts[a].onErrorCalls = 0
    /\ (acts[a].threw /\ acts[a].pc = "done" /\ ~acts[a].stopped /\ acts[a].opts.onError)
         => acts[a].onErrorCalls = 1

\* onBatch threw while active and the exception reached onError
C10_Witness ==
  \E a \in 1..Len(acts) :
    /\ acts[a].outcome = "resolved"
    /\ acts[a].threw
    /\ acts[a].onBatchCalls = 1
    /\ acts[a].onErrorCalls = 1

\* ==================================================================
\* Part 2.  useLiveQuery  (lines 155-198)
\* ==================================================================

\* number of distinct non-null cursors the server hands out
MaxCursor == 3

\* number of subscriptionOnce requests one mounted live query may issue
MaxRequests == 4

\* JavaScript's `undefined` and `null` as cursor values; real cursors are 1..MaxCursor
Undefined == -1
Null == 0

\* the `data` payloads of items
Payloads == {"x", "y"}

\* an item of a batch (OutputWithCursor, lines 30-33): cursor is TCursor | null
Items == [cursor : 0..MaxCursor, data : Payloads]

\* the batches a long-poll may resolve with: empty, one item, two items
Batches == {<<>>} \cup {<<i>> : i \in Items} \cup {<<i, j>> : i \in Items, j \in Items}

VARIABLES
  lqMounted,      \* the component calling useLiveQuery is mounted
  currentCursor,  \* currentCursor.current (line 167)
  hookData,       \* hook.data: <<>> when undefined, <<batch>> once a batch is cached
  lqError,        \* hook.isError: the last fetch rejected
  lqData,         \* the `data` of the object returned at line 197
  depCursor,      \* the [lastCursor] dependency remembered from the last effect run
  inflight,       \* number of subscriptionOnce requests not yet settled
  requests,       \* the cursor field of every request sent, in order
  nReceived,      \* number of batches received so far
  lqRefetchCalls  \* number of hook.refetch() calls made by the effect (line 193)

lqVars == <<lqMounted, currentCursor, hookData, lqError, lqData, depCursor,
            inflight, requests, nReceived, lqRefetchCalls>>

\* what `lastItem?.cursor` and `lastItem?.data` give when lastItem is undefined
NoItem == [cursor |-> Undefined, data |-> "undefined"]

\* raw[0] instead of raw[raw.length - 1]
FirstItem(raw) ==
  IF raw = <<>> THEN NoItem
  ELSE IF raw[1] = <<>> THEN NoItem
  ELSE raw[1][1]

\* lastItem (lines 179-186): undefined while hook.data is undefined, and
\* raw[raw.length - 1], which is undefined for an empty batch
LastItem(raw) ==
  IF raw = <<>> THEN NoItem
  ELSE IF raw[1] = <<>> THEN NoItem
  ELSE raw[1][Len(raw[1])]

\* an effect without its dependency array runs after every render
DepsIgnored(old, new) == TRUE

\* React re-runs the effect when lastCursor is not Object.is-equal to the
\* value of the previous run (line 195)
DepsChanged(old, new) == old # new

\* the cursor field of the queryFn's input, {...userInput, cursor: currentCursor.current}
\* (lines 172-176); the other fields are userInput's, untouched
QueryFnCursor(cur) == cur

\* a refetch that starts a second request while one is in flight
RefetchNoDedupe(n) == n + 1

\* hook.refetch() (line 193, and the caller's use of the returned hook): the
\* query observer of line 170 starts a fetch unless one is already in flight
\* for the key, in which case the call joins it
ObserverRefetch(n) == IF n > 0 THEN n ELSE n + 1

\* the request log after the number of requests in flight went from n to m
Sent(reqs, n, m, cur) ==
  IF m > n THEN Append(reqs, QueryFnCursor(cur)) ELSE reqs

\* First render and commit.  useQuery (line 170) subscribes its observer, which
\* fetches the uncached key: the queryFn reads currentCursor.current = null.
\* Then the effect of lines 191-195 runs, as every effect does on mount.
LqMount ==
  /\ ~lqMounted
  /\ lqMounted' = TRUE
  /\ hookData' = hookData
  /\ lqError' = lqError
  /\ nReceived' = nReceived
  /\ lqData' = LastItem(hookData).data
  /\ depCursor' = LastItem(hookData).cursor
  /\ currentCursor' = LastItem(hookData).cursor
  /\ lqRefetchCalls' = lqRefetchCalls + 1
  /\ LET n1 == inflight + 1
         r1 == Sent(requests, inflight, n1, currentCursor)
         n2 == ObserverRefetch(n1)
     IN  /\ inflight' = n2
         /\ requests' = Sent(r1, n1, n2, currentCursor')

\* A request resolves with `batch`: the cache stores it, the component renders
\* (lines 179-189) and, if lastCursor changed, the effect runs (lines 191-195).
LqFetchResolve(batch) ==
  /\ lqMounted
  /\ inflight > 0
  /\ Len(requests) < MaxRequests
  /\ hookData' = <<batch>>
  /\ lqError' = FALSE
  /\ nReceived' = nReceived + 1
  /\ lqMounted' = lqMounted
  /\ lqData' = LastItem(hookData').data
  /\ LET lastCursor == LastItem(hookData').cursor
         n1 == inflight - 1
     IN  IF DepsChanged(depCursor, lastCursor)
         THEN /\ depCursor' = lastCursor
              /\ currentCursor' = lastCursor
              /\ lqRefetchCalls' = lqRefetchCalls + 1
              /\ inflight' = ObserverRefetch(n1)
              /\ requests' = Sent(requests, n1, inflight', currentCursor')
         ELSE /\ inflight' = n1
              /\ UNCHANGED <<depCursor, currentCursor, lqRefetchCalls, requests>>

\* A request rejects: the cache keeps the previous data and reports the error;
\* the render sees the same lastCursor, so the effect does not run.
LqFetchReject ==
  /\ lqMounted
  /\ inflight > 0
  /\ inflight' = inflight - 1
  /\ lqError' = TRUE
  /\ UNCHANGED <<lqMounted, currentCursor, hookData, lqData, depCursor,
                 requests, nReceived, lqRefetchCalls>>

\* The caller calls refetch() of the returned object (line 197).
LqForceRefetch ==
  /\ lqMounted
  /\ Len(requests) < MaxRequests
  /\ inflight' = ObserverRefetch(inflight)
  /\ requests' = Sent(requests, inflight, inflight', currentCursor)
  /\ UNCHANGED <<lqMounted, currentCursor, hookData, lqError, lqData, depCursor,
                 nReceived, lqRefetchCalls>>

\* the last item of the batch in hook.data, read directly off the batch
RawLastCursor(raw) ==
  IF raw = <<>> THEN Undefined
  ELSE IF raw[1] = <<>> THEN Undefined
  ELSE raw[1][Len(raw[1])].cursor

RawLastData(raw) ==
  IF raw = <<>> THEN "undefined"
  ELSE IF raw[1] = <<>> THEN "undefined"
  ELSE raw[1][Len(raw[1])].data

\* this step received a batch
Received == nReceived' = nReceived + 1

\* this step sent a request
Issued == Len(requests') = Len(requests) + 1

\* ---- C2 -----------------------------------------------------------
\* C2: when a fetch completes with a non-empty batch whose last item's cursor
\* equals the stored cursor, that step triggers no refetch: no request is
\* sent and none is in flight afterwards.
C2_UnchangedCursorStalls ==
  [][(Received /\ RawLastCursor(hookData') # Undefined
               /\ RawLastCursor(hookData') = currentCursor)
       => (~Issued /\ requests' = requests /\ inflight' = 0
           /\ lqRefetchCalls' = lqRefetchCalls)]_lqVars

\* the loop stalled: the last request was sent with the cursor the answering
\* batch ends with, and nothing is in flight
C2_Witness ==
  /\ nReceived >= 2
  /\ inflight = 0
  /\ ~lqError
  /\ RawLastCursor(hookData) # Undefined
  /\ requests[Len(requests)] = RawLastCursor(hookData)
  /\ currentCursor = RawLastCursor(hookData)

\* ---- C3 -----------------------------------------------------------
\* C3: every fetch result whose last item's cursor differs from the previous
\* last cursor (in particular a strictly larger one) makes the loop send
\* exactly one request, and the exposed data is then the payload of the last
\* item of that batch.
C3_OneFetchPerTransition ==
  [][(Received /\ RawLastCursor(hookData') # Undefined
               /\ RawLastCursor(hookData') # RawLastCursor(hookData))
       => /\ Issued
          /\ inflight' = 1
          /\ lqRefetchCalls' = lqRefetchCalls + 1
          /\ lqData' = RawLastData(hookData')]_lqVars

\* three batches with strictly increasing last cursors 1, 2, 3 were received
\* and the loop sent one request after each: null, 1, 2, 3
C3_Witness ==
  /\ requests = <<Null, 1, 2, 3>>
  /\ nReceived = 3
  /\ inflight = 1
  /\ lqData = RawLastData(hookData)
  /\ RawLastCursor(hookData) = 3

C5_EmptyBatchStalls ==
  [][(Received /\ hookData' = << <<>> >>)
       => /\ lqData' = "undefined"
          /\ currentCursor' = currentCursor
          /\ ~Issued
          /\ inflight' = 0
          /\ lqRefetchCalls' = lqRefetchCalls]_lqVars

\* ---- C6 -----------------------------------------------------------
\* C6 (as claimed): every request sends the cursor of the last item of the
\* most recently received batch, and null when no batch has been received.
\* (For an empty most recent batch, which has no last item, any of undefined
\* and null is accepted here.)
C6_RequestCursor ==
  [][Issued =>
       LET sent == requests'[Len(requests')]
       IN  IF hookData' = <<>> THEN sent = Null
           ELSE IF hookData'[1] = <<>> THEN sent \in {Undefined, Null}
           ELSE sent = RawLastCursor(hookData')]_lqVars


\* ==================================================================
\* Part 3.  getCacheKey  (lines 35-48)
\* ==================================================================

CACHE_KEY_INFINITE_QUERY == "TRPC_INFINITE_QUERY"
CACHE_KEY_LIVE_QUERY == "TRPC_LIVE_QUERY"
CACHE_KEY_QUERY == "TRPC_QUERY"

\* the values `extras` takes at the call sites: a category, or absent
Categories == {"undefined", CACHE_KEY_QUERY, CACHE_KEY_INFINITE_QUERY, CACHE_KEY_LIVE_QUERY}

Paths == {"user.get", "post.list"}

\* inputs, by their printed form; "undefined" and "null" are the two nullish values
Inputs == {"undefined", "null", "{id:7}", "{id:8}"}

\* pathAndArgs: [path] with the input omitted, or [path, input]
PathAndArgs == {<<p>> : p \in Paths} \cup {<<p, i>> : p \in Paths, i \in Inputs}

\* destructuring [path, input]: a missing element reads as undefined
ArgPath(pathAndArgs) == pathAndArgs[1]
ArgInput(pathAndArgs) == IF Len(pathAndArgs) >= 2 THEN pathAndArgs[2] ELSE "undefined"

\* input ?? null
NullishToNull(input) == IF input \in {"undefined", "null"} THEN "null" ELSE input

\* if (extras): undefined and the empty string are falsy
Truthy(extras) == extras \notin {"undefined", ""}

\* a getCacheKey that forgets to push extras
GetCacheKeyNoExtras(pathAndArgs, extras) ==
  <<ArgPath(pathAndArgs), NullishToNull(ArgInput(pathAndArgs))>>

\* getCacheKey (lines 39-48)
getCacheKey(pathAndArgs, extras) ==
  LET cacheKey == <<ArgPath(pathAndArgs), NullishToNull(ArgInput(pathAndArgs))>>
  IN  IF Truthy(extras) THEN Append(cacheKey, extras) ELSE cacheKey

VARIABLES
  kArgsA, kCatA, keyA,   \* one call of getCacheKey: its arguments and its result
  kArgsB, kCatB, keyB    \* another call

keyVars == <<kArgsA, kCatA, keyA, kArgsB, kCatB, keyB>>

\* no call made yet
NoKey == <<>>

KeyCallA ==
  /\ keyA = NoKey
  /\ keyA' = getCacheKey(kArgsA, kCatA)
  /\ UNCHANGED <<kArgsA, kCatA, kArgsB, kCatB, keyB>>

KeyCallB ==
  /\ keyB = NoKey
  /\ keyB' = getCacheKey(kArgsB, kCatB)
  /\ UNCHANGED <<kArgsA, kCatA, kArgsB, kCatB, keyA>>

\* ---- C7 -----------------------------------------------------------
\* C7: two calls with equal path, equal input and equal category return equal
\* keys, and two calls with equal path and input but different categories
\* (QUERY, INFINITE_QUERY, LIVE_QUERY or none) return different keys.
C7_KeyDeterministicAndSeparating ==
  (keyA # NoKey /\ keyB # NoKey /\ kArgsA = kArgsB) =>
     /\ kCatA = kCatB => keyA = keyB
     /\ kCatA # kCatB => keyA # keyB

\* both calls made, same path and input, a category against none
C7_Witness ==
  /\ kArgsA = kArgsB
  /\ kCatA = CACHE_KEY_QUERY
  /\ kCatB = "undefined"
  /\ keyA = <<"user.get", "{id:7}", "TRPC_QUERY">>
  /\ keyB = <<"user.get", "{id:7}">>

\* ==================================================================
\* Part 4.  ssr, useDehydratedState, useQuery  (lines 72-87, 205-265)
\* ==================================================================

\* number of prefetch calls made on the server for one page
MaxPrefetch == 2

\* the calls made on the server and on the client
SsrArgs == {<<"user.get">>, <<"user.get", "{id:7}">>, <<"post.list", "null">>}

\* Values a procedure returns: plain JSON, or a native object (a Date) that
\* only survives the transfer to the client through the transformer.
UndefinedData == [kind |-> "undefined", v |-> ""]

\* caller.query(...pathAndArgs) when it succeeds (lines 224, 239)
CallerQuery(pathAndArgs) ==
  [kind |-> IF ArgPath(pathAndArgs) = "user.get" THEN "date" ELSE "json",
   v    |-> ArgInput(pathAndArgs)]

\* client.transformer.serialize on one value: a native object becomes plain
\* JSON plus a note of what it was
SerializeValue(val) ==
  [json |-> [kind |-> "json", v |-> val.v], meta |-> val.kind]

\* client.transformer.deserialize on one value: the inverse of SerializeValue
DeserializeValue(enc) ==
  [kind |-> enc.meta, v |-> enc.json.v]

\* the transformer applied to the data of one dehydrated query: a value, or
\* the pages of an infinite query
SerializeData(d) ==
  IF "pages" \in DOMAIN d
  THEN [pages |-> [i \in DOMAIN d.pages |-> SerializeValue(d.pages[i])]]
  ELSE SerializeValue(d)

DeserializeData(d) ==
  IF "pages" \in DOMAIN d
  THEN [pages |-> [i \in DOMAIN d.pages |-> DeserializeValue(d.pages[i])]]
  ELSE DeserializeValue(d)

\* client.transformer.serialize / deserialize on a dehydrated state (lines 245, 262)
Serialize(state) ==
  {[queryKey |-> e.queryKey, data |-> SerializeData(e.data), by |-> e.by] : e \in state}

Deserialize(state) ==
  {[queryKey |-> e.queryKey, data |-> DeserializeData(e.data), by |-> e.by] : e \in state}

\* dehydrate(queryClient) (line 245): the queries that hold data successfully fetched
Dehydrate(cache) ==
  {[queryKey |-> e.queryKey, data |-> e.data, by |-> e.by] :
      e \in {x \in cache : x.status = "success"}}

\* a prefetch key built without normalising a missing input
SsrQueryKeyRaw(pathAndArgs) ==
  <<ArgPath(pathAndArgs), ArgInput(pathAndArgs), CACHE_KEY_QUERY>>

\* the cache key of ssr.prefetchQuery, built by hand (lines 220-221)
SsrQueryKey(pathAndArgs) ==
  <<ArgPath(pathAndArgs), NullishToNull(ArgInput(pathAndArgs)), CACHE_KEY_QUERY>>

\* the cache key of ssr.prefetchInfiniteQuery (line 236)
SsrInfiniteKey(pathAndArgs) == getCacheKey(pathAndArgs, CACHE_KEY_INFINITE_QUERY)

\* the cache key of _useQuery (line 84)
UseQueryKey(pathAndArgs) == getCacheKey(pathAndArgs, CACHE_KEY_QUERY)

\* a prefetch that hands the failure of its fetch function to the caller
PrefetchRethrows(ok) == IF ok THEN "fulfilled" ELSE "rejected"

\* The promise returned by queryClient.prefetchQuery / prefetchInfiniteQuery
\* (lines 223-227, 238-242), which the async arrow functions of lines 214 and
\* 230 return unchanged.  The cache's prefetch primitives resolve to nothing
\* and never reject: a failure of the fetch function is caught and only
\* recorded as the query's error state.
PrefetchPromise(ok) == "fulfilled"

\* the cache after a fetch for `key` ended: data and status of the query
StoreFetch(cache, key, ok, data, by) ==
  LET old == {e \in cache : e.queryKey = key}
      kept == IF old = {} THEN UndefinedData ELSE (CHOOSE e \in old : TRUE).data
  IN  (cache \ old) \cup
        {[queryKey |-> key,
          status   |-> IF ok THEN "success" ELSE "error",
          data     |-> IF ok THEN data ELSE kept,
          by       |-> by]}

VARIABLES
  srvCache,     \* the server's queryClient: a set of queries [queryKey, status, data, by]
  srvLast,      \* the last prefetch call: its kind, arguments, outcome and returned promise
  nPrefetch,    \* number of prefetch calls made
  snapshot,     \* <<>> or <<s>>: s is the result of the last ssr.dehydrate()
  cliCache,     \* the client's queryClient: a set of queries [queryKey, data, origin]
  cliResult     \* the last client-side useQuery: what it found and whether it called the RPC

ssrVars == <<srvCache, srvLast, nPrefetch, snapshot, cliCache, cliResult>>

NoPrefetch == [kind |-> "none", args |-> <<>>, ok |-> TRUE, promise |-> "none"]
NoResult == [args |-> <<>>, found |-> FALSE, data |-> UndefinedData,
             stale |-> FALSE, rpc |-> FALSE, pending |-> FALSE]

\* ssr.prefetchQuery(...pathAndArgs) (lines 214-228), run to the settling of
\* the promise it returns; `ok` is whether caller.query succeeded.
SsrPrefetchQuery(pathAndArgs, ok) ==
  /\ nPrefetch < MaxPrefetch
  /\ nPrefetch' = nPrefetch + 1
  /\ srvCache' = StoreFetch(srvCache, SsrQueryKey(pathAndArgs), ok,
                            CallerQuery(pathAndArgs),
                            [kind |-> "query", args |-> pathAndArgs])
  /\ srvLast' = [kind |-> "query", args |-> pathAndArgs, ok |-> ok,
                 promise |-> PrefetchPromise(ok)]
  /\ UNCHANGED <<snapshot, cliCache, cliResult>>

\* ssr.prefetchInfiniteQuery(...pathAndArgs) (lines 230-243): the first page
SsrPrefetchInfiniteQuery(pathAndArgs, ok) ==
  /\ nPrefetch < MaxPrefetch
  /\ nPrefetch' = nPrefetch + 1
  /\ srvCache' = StoreFetch(srvCache, SsrInfiniteKey(pathAndArgs), ok,
                            [pages |-> <<CallerQuery(pathAndArgs)>>],
                            [kind |-> "infinite", args |-> pathAndArgs])
  /\ srvLast' = [kind |-> "infinite", args |-> pathAndArgs, ok |-> ok,
                 promise |-> PrefetchPromise(ok)]
  /\ UNCHANGED <<snapshot, cliCache, cliResult>>

\* ssr.dehydrate() (lines 244-246)
SsrDehydrate ==
  /\ snapshot' = <<Serialize(Dehydrate(srvCache))>>
  /\ snapshot' # snapshot
  /\ UNCHANGED <<srvCache, srvLast, nPrefetch, cliCache, cliResult>>

\* useDehydratedState(snapshot) (lines 256-265) and the hydration of the
\* client cache with the state it returns: queries the cache lacks are added.
CliUseDehydratedState ==
  /\ snapshot # <<>>
  /\ LET transformed == Deserialize(snapshot[1])
         have == {e.queryKey : e \in cliCache}
     IN  cliCache' = cliCache \cup
           {[queryKey |-> e.queryKey, data |-> e.data, origin |-> e.by] :
               e \in {x \in transformed : x.queryKey \notin have}}
  /\ cliCache' # cliCache
  /\ UNCHANGED <<srvCache, srvLast, nPrefetch, snapshot, cliResult>>

\* _useQuery(pathAndArgs, opts) on the client (lines 72-87), first render.
\* `stale` is whether the cache holds the entry to be stale under opts
\* (staleTime): cached data is returned at once either way, and
\* client.query is called if there is no data or the data is stale.
CliUseQuery(pathAndArgs, stale) ==
  /\ ~cliResult.pending
  /\ LET hit == {e \in cliCache : e.queryKey = UseQueryKey(pathAndArgs)}
         found == hit # {}
     IN  cliResult' =
           [args    |-> pathAndArgs,
            found   |-> found,
            data    |-> IF found THEN (CHOOSE e \in hit : TRUE).data ELSE UndefinedData,
            stale   |-> stale,
            rpc     |-> ~found \/ stale,
            pending |-> ~found \/ stale]
  /\ cliResult' # cliResult
  /\ UNCHANGED <<srvCache, srvLast, nPrefetch, snapshot, cliCache>>

\* the client.query call of the last useQuery resolves and is cached
CliQueryResolve ==
  /\ cliResult.pending
  /\ LET key == UseQueryKey(cliResult.args)
         fetched == [kind |-> "client", args |-> cliResult.args]
     IN  /\ cliCache' = {e \in cliCache : e.queryKey # key} \cup
               {[queryKey |-> key, data |-> CallerQuery(cliResult.args),
                 origin |-> fetched]}
         /\ cliResult' = [cliResult EXCEPT !.pending = FALSE,
                                           !.data = CallerQuery(cliResult.args)]
  /\ UNCHANGED <<srvCache, srvLast, nPrefetch, snapshot>>

\* the client cache holds, from hydration, what ssr.prefetchQuery stored for this call
HydratedFor(cache, pathAndArgs) ==
  \E e \in cache : e.origin = [kind |-> "query", args |-> pathAndArgs]

\* this step is a client-side useQuery
Queried == cliResult' # cliResult /\ cliResult'.pending = cliResult'.rpc /\ ~cliResult.pending

vars == <<subVars, lqVars, keyVars, ssrVars>>

SpecSubNext ==
  \/ \E e \in BOOLEAN, k \in SubKeys, o \in SubOptsSet :
        SubMount(e, k, o) /\ UNCHANGED <<lqVars, keyVars, ssrVars>>
  \/ \E e \in BOOLEAN, k \in SubKeys, o \in SubOptsSet :
        SubRerender(e, k, o) /\ UNCHANGED <<lqVars, keyVars, ssrVars>>
  \/ SubUnmount /\ UNCHANGED <<lqVars, keyVars, ssrVars>>
  \/ \E a \in 1..MaxActivations :
        SubResolve(a) /\ UNCHANGED <<lqVars, keyVars, ssrVars>>
  \/ \E a \in 1..MaxActivations :
        SubReject(a) /\ UNCHANGED <<lqVars, keyVars, ssrVars>>
  \/ \E a \in 1..MaxActivations, t \in BOOLEAN :
        SubRunThen(a, t) /\ UNCHANGED <<lqVars, keyVars, ssrVars>>
  \/ \E a \in 1..MaxActivations :
        SubRunCatch(a) /\ UNCHANGED <<lqVars, keyVars, ssrVars>>

SpecLiveNext ==
  \/ LqMount /\ UNCHANGED <<subVars, keyVars, ssrVars>>
  \/ \E b \in Batches : LqFetchResolve(b) /\ UNCHANGED <<subVars, keyVars, ssrVars>>
  \/ LqFetchReject /\ UNCHANGED <<subVars, keyVars, ssrVars>>
  \/ LqForceRefetch /\ UNCHANGED <<subVars, keyVars, ssrVars>>

SpecKeyNext ==
  \/ KeyCallA /\ UNCHANGED <<subVars, lqVars, ssrVars>>
  \/ KeyCallB /\ UNCHANGED <<subVars, lqVars, ssrVars>>

SpecSsrNext ==
  \/ \E a \in SsrArgs, ok \in BOOLEAN :
        SsrPrefetchQuery(a, ok) /\ UNCHANGED <<subVars, lqVars, keyVars>>
  \/ \E a \in SsrArgs, ok \in BOOLEAN :
        SsrPrefetchInfiniteQuery(a, ok) /\ UNCHANGED <<subVars, lqVars, keyVars>>
  \/ SsrDehydrate /\ UNCHANGED <<subVars, lqVars, keyVars>>
  \/ CliUseDehydratedState /\ UNCHANGED <<subVars, lqVars, keyVars>>
  \/ \E a \in SsrArgs, st \in BOOLEAN :
        CliUseQuery(a, st) /\ UNCHANGED <<subVars, lqVars, keyVars>>
  \/ CliQueryResolve /\ UNCHANGED <<subVars, lqVars, keyVars>>

\* The state after construction: nothing mounted, empty caches.  `keyed` is
\* whether the run is one of getCacheKey calls, whose arguments it then draws.
Init(keyed) ==
  /\ subMounted = FALSE
  /\ subEnabled = TRUE
  /\ subKey = "k1"
  /\ subOpts = [onBatch |-> TRUE, onError |-> TRUE]
  /\ subLive = 0
  /\ acts = <<>>
  /\ lqMounted = FALSE
  /\ currentCursor = Null
  /\ hookData = <<>>
  /\ lqError = FALSE
  /\ lqData = "undefined"
  /\ depCursor = Undefined
  /\ inflight = 0
  /\ requests = <<>>
  /\ nReceived = 0
  /\ lqRefetchCalls = 0
  /\ kArgsA \in (IF keyed THEN PathAndArgs ELSE {<<"user.get">>})
  /\ kArgsB \in (IF keyed THEN PathAndArgs ELSE {<<"user.get">>})
  /\ kCatA \in (IF keyed THEN Categories ELSE {"undefined"})
  /\ kCatB \in (IF keyed THEN Categories ELSE {"undefined"})
  /\ keyA = NoKey
  /\ keyB = NoKey
  /\ srvCache = {}
  /\ srvLast = NoPrefetch
  /\ nPrefetch = 0
  /\ snapshot = <<>>
  /\ cliCache = {}
  /\ cliResult = NoResult

SpecSub == Init(FALSE) /\ [][SpecSubNext]_vars
SpecLive == Init(FALSE) /\ [][SpecLiveNext]_vars
SpecKey == Init(TRUE) /\ [][SpecKeyNext]_vars
SpecSsr == Init(FALSE) /\ [][SpecSsrNext]_vars

====
